---- MODULE Spec2Model ----
(***************************************************************************)
(* Offline electronic cash (Task3): the merchant's acceptCoin, the codec's *)
(* parseCoin and the bank's determineCheater, with the Coin and the utils  *)
(* they call.  Strings are sequences of character codes, buffers are       *)
(* sequences of bytes.                                                     *)
(***************************************************************************)
EXTENDS Integers, Sequences, FiniteSets, TLC

\* ------------------------------------------------------------------ bounds
\* Number of left/right pairs of a coin (COIN_RIS_LENGTH of coin.js), scaled.
COIN_RIS_LENGTH == 2
\* Number of distinct random pads a coin may be built from.
MaxSeed == 2
\* Number of calls of acceptCoin one merchant makes on the coin, at most.
MaxCalls == 3

\* ------------------------------------------------------- character codes
DASH == 45
COMMA == 44
COLON == 58

\* "ID", the marker in front of the purchaser's identity.
IDENT_STR == <<73, 68>>
\* "BK", the issuer tag in front of the coin's string.
BANK_STR == <<66, 75>>
\* "XK", the tag of some other issuer.
OTHER_BANK_STR == <<88, 75>>

\* JavaScript's undefined, where a string was expected.
Undefined == <<-1>>

\* ------------------------------------------------------------ strings
\* arr[i] with a 0-based index; undefined outside the array.
At(arr, i) == IF i >= 0 /\ i < Len(arr) THEN arr[i + 1] ELSE Undefined

\* Position of the first d in s at or after position k, or 0.
RECURSIVE IndexFrom(_, _, _)
IndexFrom(s, d, k) ==
  IF k > Len(s) THEN 0
  ELSE IF s[k] = d THEN k
  ELSE IndexFrom(s, d, k + 1)

\* String.prototype.split(d): the fields between the occurrences of d.
RECURSIVE Split(_, _)
Split(s, d) ==
  LET p == IndexFrom(s, d, 1) IN
    IF p = 0 THEN <<s>>
    ELSE <<SubSeq(s, 1, p - 1)>> \o Split(SubSeq(s, p + 1, Len(s)), d)

\* Array.prototype.join(d).
RECURSIVE Join(_, _)
Join(arr, d) ==
  IF Len(arr) = 0 THEN <<>>
  ELSE IF Len(arr) = 1 THEN arr[1]
  ELSE arr[1] \o <<d>> \o Join(Tail(arr), d)

\* String.prototype.startsWith(p).
StartsWith(s, p) == Len(s) >= Len(p) /\ SubSeq(s, 1, Len(p)) = p

\* ------------------------------------------------------------ buffers
RECURSIVE Xor(_, _)
Xor(a, b) ==
  IF a = 0 THEN b
  ELSE IF b = 0 THEN a
  ELSE (((a % 2) + (b % 2)) % 2) + (2 * Xor(a \div 2, b \div 2))

\* utils.xorBuffers: the bytewise exclusive-or of two buffers of one length.
xorBuffers(a, b) == [k \in 1..Len(a) |-> Xor(a[k], b[k])]

HexChar(d) == IF d < 10 THEN 48 + d ELSE 87 + d
IsHexChar(c) == (c >= 48 /\ c <= 57) \/ (c >= 97 /\ c <= 102)
HexVal(c) == IF c <= 57 THEN c - 48 ELSE c - 87

\* Buffer.prototype.toString('hex'): two hex digits per byte.
RECURSIVE ToHex(_)
ToHex(buf) ==
  IF Len(buf) = 0 THEN <<>>
  ELSE <<HexChar(buf[1] \div 16), HexChar(buf[1] % 16)>> \o ToHex(Tail(buf))

\* Buffer.from(s, 'hex'): one byte per pair of hex digits, up to the first
\* pair that is not one.
RECURSIVE FromHex(_)
FromHex(s) ==
  IF Len(s) < 2 \/ ~IsHexChar(s[1]) \/ ~IsHexChar(s[2]) THEN <<>>
  ELSE <<(16 * HexVal(s[1])) + HexVal(s[2])>> \o FromHex(SubSeq(s, 3, Len(s)))

\* utils.hash: a collision-free digest of a string; its value is a string
\* free of '-' and ','.
hash(s) == <<104>> \o s

\* Buffer.prototype.toString(): the characters of an ASCII buffer; a byte
\* that is not ASCII decodes to U+FFFD.
BufferToString(buf) == [k \in 1..Len(buf) |-> IF buf[k] < 128 THEN buf[k] ELSE 65533]

\* --------------------------------------------------------------- Coin
\* "20", the amount of the coin of the main execution.
Amount == <<50, 48>>
\* The coin's identifier, a hex string.
Guid == <<99, 49>>
\* Identities of purchasers: "a", "a:b", ":a".
Purchasers == {<<97>>, <<97, COLON, 98>>, <<COLON, 97>>}
Seeds == 1..MaxSeed
Indices == 0..(COIN_RIS_LENGTH - 1)

\* The random pad of pair i: len bytes.
Pad(seed, i, len) == [k \in 1..len |-> ((37 * seed) + (11 * i) + k) % 128]

\* The string the two halves of every pair xor to.
IdentString(purchaser) == IDENT_STR \o <<COLON>> \o purchaser

\* Coin.toString: the issuer tag, the amount, the guid and the two lists of
\* commitments, joined by '-'.
toString(c) ==
  c.cnst \o <<DASH>> \o c.amount \o <<DASH>> \o c.guid \o <<DASH>>
    \o Join(c.leftHashes, COMMA) \o <<DASH>> \o Join(c.rightHashes, COMMA)

\* Coin.getRis: the left or the right half of pair i, as a hex string.
getRis(c, isLeft, i) ==
  IF isLeft THEN ToHex(c.leftIdent[i + 1]) ELSE ToHex(c.rightIdent[i + 1])

NoSignature == [kind |-> "none", msg |-> <<>>]

\* new Coin(purchaser, amount, n, e): COIN_RIS_LENGTH pads and their
\* complements, the commitments to both, and the blinded string to sign.
NewCoin(cnst, purchaser, seed) ==
  LET ident == IdentString(purchaser)
      left == [k \in 1..COIN_RIS_LENGTH |-> Pad(seed, k - 1, Len(ident))]
      right == [k \in 1..COIN_RIS_LENGTH |-> xorBuffers(left[k], ident)]
      c == [cnst |-> cnst, purchaser |-> purchaser, amount |-> Amount,
            guid |-> Guid, leftIdent |-> left, rightIdent |-> right,
            leftHashes |-> [k \in 1..COIN_RIS_LENGTH |-> hash(ToHex(left[k]))],
            rightHashes |-> [k \in 1..COIN_RIS_LENGTH |-> hash(ToHex(right[k]))],
            blinded |-> <<>>, signature |-> NoSignature]
  IN [c EXCEPT !.blinded = toString(c)]

\* The coin with the commitment of pair j on one side replaced by the
\* commitment to the other half.
Tamper(c, j, isLeft) ==
  IF isLeft
  THEN [c EXCEPT !.leftHashes[j + 1] = hash(getRis(c, FALSE, j))]
  ELSE [c EXCEPT !.rightHashes[j + 1] = hash(getRis(c, TRUE, j))]

\* The commitments of c that are not the hash of their half.
TamperedAt(c) ==
  {js \in Indices \X BOOLEAN :
     (IF js[2] THEN c.leftHashes[js[1] + 1] ELSE c.rightHashes[js[1] + 1])
       # hash(getRis(c, js[2], js[1]))}

\* signCoin: the bank's signature of the blinded string.
signCoin(blindedCoinHash) == [kind |-> "blinded", msg |-> blindedCoinHash]

\* Coin.unblind: the signature of the string itself.
unblind(sig) == [kind |-> "unblinded", msg |-> sig.msg]

\* blindSignatures.verify: an unblinded signature of this very message.
verify(sig, message) == sig.kind = "unblinded" /\ sig.msg = message

\* ----------------------------------------------------------- parseCoin
ParseError(e) == [kind |-> "error", err |-> e, lh |-> <<>>, rh |-> <<>>]

\* parseCoin(s): the two lists of commitments of a coin's string.  A wrong
\* issuer tag throws "Invalid identity string" (MalformedCoinError); a
\* missing list makes .split throw a TypeError.
WrongIssuerMut(cnst) == FALSE
WrongIssuer(cnst) == cnst # BANK_STR

\* parseCoin with the two lists taken in the other order.
parseCoinMut(s) ==
  LET parts == Split(s, DASH)
      cnst == At(parts, 0)
      leftHashes == At(parts, 4)
      rightHashes == At(parts, 3)
  IN IF WrongIssuer(cnst) THEN ParseError("MalformedCoinError")
     ELSE IF leftHashes = Undefined \/ rightHashes = Undefined
       THEN ParseError("TypeError")
     ELSE [kind |-> "ok", err |-> "", lh |-> Split(leftHashes, COMMA),
           rh |-> Split(rightHashes, COMMA)]

parseCoin(s) ==
  LET parts == Split(s, DASH)
      cnst == At(parts, 0)
      leftHashes == At(parts, 3)
      rightHashes == At(parts, 4)
  IN IF WrongIssuer(cnst) THEN ParseError("MalformedCoinError")
     ELSE IF leftHashes = Undefined \/ rightHashes = Undefined
       THEN ParseError("TypeError")
     ELSE [kind |-> "ok", err |-> "", lh |-> Split(leftHashes, COMMA),
           rh |-> Split(rightHashes, COMMA)]

\* ---------------------------------------------------------- acceptCoin
Merchants == {1, 2}

NoOutcome == [kind |-> "none", err |-> "", ris |-> <<>>]
Threw(e) == [kind |-> "error", err |-> e, ris |-> <<>>]
Returned(r) == [kind |-> "ris", err |-> "", ris |-> r]

\* if (!valid): the signature is rejected.
InvalidMut(valid) == FALSE
Invalid(valid) == ~valid

\* expected = isLeft ? leftHashes[i] : rightHashes[i]
ExpectedMut(isLeft, leftHashes, rightHashes, i) ==
  IF isLeft THEN At(rightHashes, i) ELSE At(leftHashes, i)
Expected(isLeft, leftHashes, rightHashes, i) ==
  IF isLeft THEN At(leftHashes, i) ELSE At(rightHashes, i)

\* if (hashed !== expected)
MismatchMut(hashed, expected) == FALSE
Mismatch(hashed, expected) == hashed # expected

\* throw new Error("RIS hash mismatch"): the call ends without a value.
OnMismatchMut(r) == Returned(r)
OnMismatch(r) == Threw("ForgeryError")

\* ris.push(value), on the array of the call of merchant m.
PushFrontMut(r, m, value) == [r EXCEPT ![m] = <<value>> \o r[m]]
PushMut(r, m, value) == [k \in DOMAIN r |-> Append(r[k], value)]
Push(r, m, value) == [r EXCEPT ![m] = Append(r[m], value)]

\* let ris = [], on entering the loop of the call of merchant m.
FreshRisMut(r, m) == r
FreshRis(r, m) == [r EXCEPT ![m] = <<>>]

\* The loop of acceptCoin from index i on, run to its end with the bits b.
RECURSIVE GatherRis(_, _, _, _, _, _)
GatherRis(c, leftHashes, rightHashes, b, i, r) ==
  IF i >= COIN_RIS_LENGTH THEN Returned(r)
  ELSE LET isLeft == b[i + 1]
           value == getRis(c, isLeft, i)
       IN IF Mismatch(hash(value), Expected(isLeft, leftHashes, rightHashes, i))
          THEN OnMismatch(r)
          ELSE GatherRis(c, leftHashes, rightHashes, b, i + 1, Append(r, value))

\* acceptCoin(coin), run alone from its first to its last statement, with
\* b the values of Math.random() < 0.5 it draws.
acceptCoin(c, b) ==
  IF Invalid(verify(c.signature, toString(c))) THEN Threw("InvalidSignatureError")
  ELSE LET parsed == parseCoin(toString(c))
       IN IF parsed.kind = "error" THEN Threw(parsed.err)
          ELSE GatherRis(c, parsed.lh, parsed.rh, b, 0, <<>>)

\* ---------------------------------------------------- determineCheater
NoVerdict == [kind |-> "none", identity |-> <<>>, scanned |-> 0]
Verdict(k, id, n) == [kind |-> k, identity |-> id, scanned |-> n]

\* if (ris1[i] !== ris2[i])
DifferMut(a, b) == a = b
Differ(a, b) == a # b

\* if (xor.startsWith(IDENT_STR))
HasMarkerMut(xor) == StartsWith(xor, BANK_STR)
HasMarker(xor) == StartsWith(xor, IDENT_STR)

\* The body of the if at index i: the xor of the two halves names the
\* buyer when it starts with IDENT_STR.  Buffer.from(undefined) throws a
\* TypeError.
Classify(a, b, i) ==
  IF a = Undefined \/ b = Undefined THEN Verdict("TypeError", <<>>, i + 1)
  ELSE LET id1 == FromHex(a)
           id2 == FromHex(b)
           xor == BufferToString(xorBuffers(id1, id2))
       IN IF HasMarker(xor)
          THEN Verdict("OwnerCheater", At(Split(xor, COLON), 1), i + 1)
          ELSE Verdict("MerchantCheater", <<>>, i + 1)

\* i < COIN_RIS_LENGTH, the condition of the loop of determineCheater.
InScanMut(k) == k <= COIN_RIS_LENGTH
InScan(k) == k < COIN_RIS_LENGTH

\* The loop with the second transcript read one index too far.
RECURSIVE ScanMut(_, _, _)
ScanMut(ris1, ris2, i) ==
  IF ~InScan(i) THEN Verdict("FalseClaim", <<>>, i)
  ELSE IF Differ(At(ris1, i), At(ris2, i))
    THEN Classify(At(ris1, i), At(ris2, i + 1), i)
  ELSE ScanMut(ris1, ris2, i + 1)

\* The loop of determineCheater from index i on.
RECURSIVE Scan(_, _, _)
Scan(ris1, ris2, i) ==
  IF ~InScan(i) THEN Verdict("FalseClaim", <<>>, i)
  ELSE IF Differ(At(ris1, i), At(ris2, i))
    THEN Classify(At(ris1, i), At(ris2, i), i)
  ELSE Scan(ris1, ris2, i + 1)

\* determineCheater(guid, ris1, ris2): what it reports, and the number of
\* indices it looked at.
determineCheater(guid, ris1, ris2) == Scan(ris1, ris2, 0)

\* ------------------------------------------------------------- state
VARIABLES
  coin,         \* the coin of the main execution
  pc,           \* per merchant: where its call of acceptCoin stands
  hashes,       \* per merchant: leftHashes and rightHashes of its call
  i,            \* per merchant: the loop index of its call
  ris,          \* per merchant: the array ris of its call
  bits,         \* per merchant: the values of isLeft its call has drawn
  out,          \* per merchant: what its call returned or threw
  calls,        \* per merchant: the number of calls it has begun
  verdict,      \* determineCheater(coin.guid, ris1, ris2)
  verdictSame,  \* determineCheater(coin.guid, ris1, ris1)
  pIn,          \* a string handed to parseCoin
  pOut,         \* what parseCoin made of it
  dIn,          \* a guid and two transcripts handed to determineCheater
  dOut          \* what determineCheater made of them

vars == <<coin, pc, hashes, i, ris, bits, out, calls, verdict, verdictSame,
          pIn, pOut, dIn, dOut>>
callVars == <<pc, hashes, i, ris, bits, out, calls>>
parseVars == <<pIn, pOut>>
detectVars == <<dIn, dOut>>

\* The coins a purchaser may build: honest ones, ones with one or two
\* commitments forged before blinding, and ones of another issuer.
BuiltCoins ==
  LET honest == {NewCoin(t, p, sd) : t \in {BANK_STR, OTHER_BANK_STR},
                                     p \in Purchasers, sd \in Seeds}
      forged == {[Tamper(c, js[1], js[2]) EXCEPT
                    !.blinded = toString(Tamper(c, js[1], js[2]))] :
                 c \in honest, js \in Indices \X BOOLEAN}
      twice == {[Tamper(c, js[1], js[2]) EXCEPT
                   !.blinded = toString(Tamper(c, js[1], js[2]))] :
                c \in forged, js \in Indices \X BOOLEAN}
  IN honest \cup forged \cup twice

NoParse == [kind |-> "none", err |-> "", lh |-> <<>>, rh |-> <<>>]
NoString == [c |-> <<>>, nf |-> 0, s |-> <<>>]
NoInput == [guid |-> <<>>, ris1 |-> <<>>, ris2 |-> <<>>]

CallsIdle ==
  /\ pc = [m \in Merchants |-> "idle"]
  /\ hashes = [m \in Merchants |-> <<>>]
  /\ i = [m \in Merchants |-> 0]
  /\ ris = [m \in Merchants |-> <<>>]
  /\ bits = [m \in Merchants |-> <<>>]
  /\ out = [m \in Merchants |-> NoOutcome]
  /\ calls = [m \in Merchants |-> 0]

Init ==
  /\ coin \in BuiltCoins
  /\ CallsIdle
  /\ verdict = NoVerdict
  /\ verdictSame = NoVerdict
  /\ pIn = NoString /\ pOut = NoParse
  /\ dIn = NoInput /\ dOut = NoVerdict

\* coin.signature = signCoin(coin.blinded)
SignCoin ==
  /\ CallsIdle
  /\ coin.signature.kind = "none"
  /\ coin' = [coin EXCEPT !.signature = signCoin(coin.blinded)]
  /\ UNCHANGED <<callVars, verdict, verdictSame, parseVars, detectVars>>

\* coin.unblind()
Unblind ==
  /\ CallsIdle
  /\ coin.signature.kind = "blinded"
  /\ coin' = [coin EXCEPT !.signature = unblind(coin.signature)]
  /\ UNCHANGED <<callVars, verdict, verdictSame, parseVars, detectVars>>

\* A commitment of an honest coin is overwritten after the coin was blinded.
TamperCommitment ==
  /\ CallsIdle
  /\ TamperedAt(coin) = {}
  /\ \E j \in Indices, isLeft \in BOOLEAN : coin' = Tamper(coin, j, isLeft)
  /\ UNCHANGED <<callVars, verdict, verdictSame, parseVars, detectVars>>

\* acceptCoin, step 1: the signature is verified.
Verify(m) ==
  /\ pc[m] = "idle"
  /\ IF Invalid(verify(coin.signature, toString(coin)))
     THEN /\ pc' = [pc EXCEPT ![m] = "done"]
          /\ out' = [out EXCEPT ![m] = Threw("InvalidSignatureError")]
     ELSE /\ pc' = [pc EXCEPT ![m] = "parse"]
          /\ out' = out
  /\ calls' = [calls EXCEPT ![m] = @ + 1]
  /\ UNCHANGED <<coin, hashes, i, ris, bits, verdict, verdictSame,
                 parseVars, detectVars>>

\* acceptCoin, step 2: the coin's string is parsed, ris = [], i = 0.
Parse(m) ==
  /\ pc[m] = "parse"
  /\ LET parsed == parseCoin(toString(coin))
     IN IF parsed.kind = "error"
        THEN /\ pc' = [pc EXCEPT ![m] = "done"]
             /\ out' = [out EXCEPT ![m] = Threw(parsed.err)]
             /\ UNCHANGED <<hashes, ris, i>>
        ELSE /\ pc' = [pc EXCEPT ![m] = "loop"]
             /\ hashes' = [hashes EXCEPT ![m] = <<parsed.lh, parsed.rh>>]
             /\ ris' = FreshRis(ris, m)
             /\ i' = [i EXCEPT ![m] = 0]
             /\ out' = out
  /\ UNCHANGED <<coin, bits, calls, verdict, verdictSame, parseVars,
                 detectVars>>

\* acceptCoin, one iteration of the loop.
Iterate(m) ==
  /\ pc[m] = "loop"
  /\ i[m] < COIN_RIS_LENGTH
  /\ \E isLeft \in BOOLEAN :
       LET value == getRis(coin, isLeft, i[m])
           hashed == hash(value)
           expected == Expected(isLeft, hashes[m][1], hashes[m][2], i[m])
       IN /\ bits' = [bits EXCEPT ![m] = Append(@, isLeft)]
          /\ IF Mismatch(hashed, expected)
             THEN /\ pc' = [pc EXCEPT ![m] = "done"]
                  /\ out' = [out EXCEPT ![m] = OnMismatch(ris[m])]
                  /\ UNCHANGED <<ris, i>>
             ELSE /\ ris' = Push(ris, m, value)
                  /\ i' = [i EXCEPT ![m] = @ + 1]
                  /\ UNCHANGED <<pc, out>>
  /\ UNCHANGED <<coin, hashes, calls, verdict, verdictSame, parseVars,
                 detectVars>>

\* acceptCoin: return ris.
Return(m) ==
  /\ pc[m] = "loop"
  /\ i[m] >= COIN_RIS_LENGTH
  /\ pc' = [pc EXCEPT ![m] = "done"]
  /\ out' = [out EXCEPT ![m] = Returned(ris[m])]
  /\ UNCHANGED <<coin, hashes, i, ris, bits, calls, verdict, verdictSame,
                 parseVars, detectVars>>

\* The bank's two calls of determineCheater at the end of the main execution.
BankDetect ==
  /\ \A m \in Merchants : out[m].kind = "ris"
  /\ verdict = NoVerdict
  /\ verdict' = determineCheater(coin.guid, out[1].ris, out[2].ris)
  /\ verdictSame' = determineCheater(coin.guid, out[1].ris, out[1].ris)
  /\ UNCHANGED <<coin, callVars, parseVars, detectVars>>

Next ==
  \/ SignCoin
  \/ Unblind
  \/ TamperCommitment
  \/ \E m \in Merchants : Verify(m)
  \/ \E m \in Merchants : Parse(m)
  \/ \E m \in Merchants : Iterate(m)
  \/ \E m \in Merchants : Return(m)
  \/ BankDetect

Spec == Init /\ [][Next]_vars

\* ------------------------------------- one merchant, call after call
\* The merchant presents the coin again: a new call of acceptCoin.
NextCall(m) ==
  /\ pc[m] = "done"
  /\ calls[m] < MaxCalls
  /\ pc' = [pc EXCEPT ![m] = "idle"]
  /\ out' = [out EXCEPT ![m] = NoOutcome]
  /\ bits' = [bits EXCEPT ![m] = <<>>]
  /\ UNCHANGED <<coin, hashes, i, ris, calls, verdict, verdictSame,
                 parseVars, detectVars>>

NextRepeat ==
  \/ SignCoin
  \/ Unblind
  \/ TamperCommitment
  \/ Verify(1)
  \/ Parse(1)
  \/ Iterate(1)
  \/ Return(1)
  \/ NextCall(1)

SpecRepeat == Init /\ [][NextRepeat]_vars

\* ------------------------------------------- parseCoin on any string
\* Two commitments, the hashes of the hex strings "0" and "1".
HashTokens == {hash(<<48>>), hash(<<49>>)}
HashLists == UNION {[1..k -> HashTokens] : k \in 0..(COIN_RIS_LENGTH + 1)}

\* Coins as a merchant may be sent them: of either issuer, the amount "20"
\* or "-5", the guid "c1" or "c-1", and lists of up to COIN_RIS_LENGTH + 1
\* commitments.
SentCoins ==
  [cnst : {BANK_STR, OTHER_BANK_STR}, amount : {Amount, <<DASH, 53>>},
   guid : {Guid, <<99, DASH, 49>>},
   leftHashes : HashLists, rightHashes : HashLists]

\* The strings handed to parseCoin: the string of a sent coin, whole or cut
\* after its first nf fields.
ParseInputs ==
  {[c |-> c, nf |-> nf,
    s |-> Join(SubSeq(<<c.cnst, c.amount, c.guid, Join(c.leftHashes, COMMA),
                        Join(c.rightHashes, COMMA)>>, 1, nf), DASH)] :
     c \in SentCoins, nf \in 3..5}

\* The coin the other variables rest at while one function is exercised.
RestCoin ==
  [cnst |-> BANK_STR, purchaser |-> <<>>, amount |-> <<>>, guid |-> <<>>,
   leftIdent |-> <<>>, rightIdent |-> <<>>, leftHashes |-> <<>>,
   rightHashes |-> <<>>, blinded |-> <<>>, signature |-> NoSignature]

InitParse ==
  /\ pIn \in ParseInputs
  /\ pOut = NoParse
  /\ coin = RestCoin
  /\ CallsIdle
  /\ verdict = NoVerdict /\ verdictSame = NoVerdict
  /\ dIn = NoInput /\ dOut = NoVerdict

\* parseCoin(s)
ParseCoin ==
  /\ pOut = NoParse
  /\ pOut' = parseCoin(pIn.s)
  /\ UNCHANGED <<coin, callVars, verdict, verdictSame, pIn, detectVars>>

NextParse == ParseCoin

SpecParse == InitParse /\ [][NextParse]_vars

\* ------------------------------- determineCheater on any transcripts
\* Four-byte halves: a pad, and the pad xored with "ID:a", with "IDxa" and
\* with "zz:a".
RestPad == Pad(1, 0, 4)
Halves ==
  {ToHex(RestPad),
   ToHex(xorBuffers(RestPad, <<73, 68, COLON, 97>>)),
   ToHex(xorBuffers(RestPad, <<73, 68, 120, 97>>))}

\* Transcripts of COIN_RIS_LENGTH - 1 to COIN_RIS_LENGTH + 1 entries.
Transcripts ==
  UNION {[1..k -> Halves] : k \in (COIN_RIS_LENGTH - 1)..(COIN_RIS_LENGTH + 1)}

DetectInputs ==
  [guid : {Guid, <<99, 50>>}, ris1 : Transcripts, ris2 : Transcripts]

InitDetect ==
  /\ dIn \in DetectInputs
  /\ dOut = NoVerdict
  /\ coin = RestCoin
  /\ CallsIdle
  /\ verdict = NoVerdict /\ verdictSame = NoVerdict
  /\ pIn = NoString /\ pOut = NoParse

\* determineCheater(guid, ris1, ris2)
Detect ==
  /\ dOut = NoVerdict
  /\ dOut' = determineCheater(dIn.guid, dIn.ris1, dIn.ris2)
  /\ UNCHANGED <<coin, callVars, verdict, verdictSame, parseVars, dIn>>

NextDetect == Detect

SpecDetect == InitDetect /\ [][NextDetect]_vars

\* ------------------------------------------------------------- claims
Done(m) == pc[m] = "done"
ValidlySigned == verify(coin.signature, toString(coin))
Honest == coin.cnst = BANK_STR /\ TamperedAt(coin) = {}

\* The half of pair k that a call disclosed on drawing the bit b.
Disclosed(b, k) == getRis(coin, b[k + 1], k)

\* A call of merchant m met a half that does not hash to its commitment.
MetMismatch(m) ==
  \E k \in 0..(Len(bits[m]) - 1) : <<k, bits[m][k + 1]>> \in TamperedAt(coin)

\* C1: for an honestly built, signed and unblinded coin and two returned
\* transcripts that differ at some index, determineCheater names the buyer
\* and the identity it reports is the purchaser's whole identity, also
\* when the identity holds a ':'.
C1_OwnerIdentity ==
  (Honest /\ verdict # NoVerdict /\ out[1].ris # out[2].ris)
    => (verdict.kind = "OwnerCheater" /\ verdict.identity = coin.purchaser)

\* C3: a call of acceptCoin hands its caller nothing until it ends, and
\* then either a transcript of COIN_RIS_LENGTH entries or an error and no
\* transcript; a call that met a mismatch hands over an error, and the
\* bank's detector never runs on it.
C3_AcceptAtomic ==
  \A m \in Merchants :
    /\ ~Done(m) => out[m] = NoOutcome
    /\ Done(m) => out[m].kind \in {"ris", "error"}
    /\ out[m].kind = "ris" => Len(out[m].ris) = COIN_RIS_LENGTH
    /\ out[m].kind = "error" => out[m].ris = <<>>
    /\ (Done(m) /\ MetMismatch(m)) => (out[m].kind = "error" /\ verdict = NoVerdict)

\* C3 witness: a call threw on the last pair, after pushing all the others.
C3_Witness ==
  \E m \in Merchants :
    /\ Done(m) /\ out[m].err = "ForgeryError"
    /\ Len(bits[m]) = COIN_RIS_LENGTH
    /\ Len(ris[m]) = COIN_RIS_LENGTH - 1

\* C4: for a validly signed coin of the bank whose commitments all are the
\* hashes of their halves, a call of acceptCoin never throws and returns a
\* transcript of COIN_RIS_LENGTH entries, whatever bits it draws.
C4_HonestAccepted ==
  \A m \in Merchants :
    (ValidlySigned /\ Honest) =>
      /\ out[m].kind # "error"
      /\ Done(m) => (out[m].kind = "ris" /\ Len(out[m].ris) = COIN_RIS_LENGTH)

\* C4 witness: a call on such a coin has returned.
C4_Witness ==
  \E m \in Merchants :
    ValidlySigned /\ Honest /\ Done(m) /\ Len(bits[m]) = COIN_RIS_LENGTH

\* C5: when the signature does not verify against the coin's string, a
\* call of acceptCoin parses nothing, draws no bit, discloses no half and
\* ends with InvalidSignatureError, whatever the commitments are.
C5_InvalidSignature ==
  \A m \in Merchants :
    ~ValidlySigned =>
      /\ pc[m] \in {"idle", "done"}
      /\ bits[m] = <<>> /\ ris[m] = <<>>
      /\ Done(m) => out[m] = Threw("InvalidSignatureError")

\* C5 witness: a call has ended on a coin that carries an unblinded
\* signature of another string, one commitment being overwritten.
C5_Witness ==
  \E m \in Merchants :
    /\ Done(m) /\ ~ValidlySigned
    /\ coin.signature.kind = "unblinded" /\ TamperedAt(coin) # {}

\* C6: for a validly signed coin with exactly one commitment (pair j, side
\* s) that is not the hash of its half, a call of acceptCoin that draws
\* side s for pair j ends with ForgeryError.
C6_TamperedRejected ==
  \A m \in Merchants : \A js \in Indices \X BOOLEAN :
    (/\ ValidlySigned /\ TamperedAt(coin) = {js}
     /\ Len(bits[m]) > js[1] /\ bits[m][js[1] + 1] = js[2])
      => (Done(m) /\ out[m] = Threw("ForgeryError"))

\* C6 witness: a call drew the forged side of the last pair.
C6_Witness ==
  \E m \in Merchants : \E s \in BOOLEAN :
    /\ ValidlySigned /\ TamperedAt(coin) = {<<COIN_RIS_LENGTH - 1, s>>}
    /\ Len(bits[m]) = COIN_RIS_LENGTH /\ bits[m][COIN_RIS_LENGTH] = s

\* C10: with the steps of the two merchants' calls interleaved in any
\* order, the array of each call holds only the halves its own bits chose,
\* and each call ends as acceptCoin run alone on its bits ends.
C10_Interleaved ==
  \A m \in Merchants :
    /\ Len(ris[m]) <= Len(bits[m])
    /\ ris[m] = [k \in 1..Len(ris[m]) |-> Disclosed(bits[m], k - 1)]
    /\ Done(m) => out[m] = acceptCoin(coin, bits[m])

\* C10 witness: both calls are inside their loops at once, one of them
\* about to end, having drawn different bits.
C10_Witness ==
  /\ pc[1] = "loop" /\ pc[2] = "loop"
  /\ i[1] = COIN_RIS_LENGTH /\ i[2] = 1
  /\ bits[1][1] # bits[2][1]

\* The first index below COIN_RIS_LENGTH where the two transcripts handed
\* to determineCheater differ, or COIN_RIS_LENGTH.
RECURSIVE FirstDiffFrom(_)
FirstDiffFrom(k) ==
  IF k >= COIN_RIS_LENGTH \/ At(dIn.ris1, k) # At(dIn.ris2, k) THEN k
  ELSE FirstDiffFrom(k + 1)
FirstDiff == FirstDiffFrom(0)

BothFull == Len(dIn.ris1) = COIN_RIS_LENGTH /\ Len(dIn.ris2) = COIN_RIS_LENGTH

\* C2: whenever the two transcripts agree at every index below
\* COIN_RIS_LENGTH, and so whenever they are one transcript,
\* determineCheater reports a false claim of the merchant, never the
\* buyer and never a cheating merchant.
C2_IdenticalFalseClaim ==
  (dOut # NoVerdict /\ \A k \in Indices : At(dIn.ris1, k) = At(dIn.ris2, k))
    => dOut.kind = "FalseClaim"

\* C2 witness: determineCheater has run on one full transcript given twice.
C2_Witness == dOut # NoVerdict /\ BothFull /\ dIn.ris1 = dIn.ris2

\* C7: determineCheater rejects transcripts that are not both of
\* COIN_RIS_LENGTH entries with InputMismatchError, before it looks at any
\* index.
C7_InputMismatch ==
  (dOut # NoVerdict /\ ~BothFull)
    => (dOut.kind = "InputMismatchError" /\ dOut.scanned = 0)

\* C8: parseCoin returns lists only when both hold COIN_RIS_LENGTH
\* commitments, and fails with MalformedCoinError on a string whose left
\* or right list does not.
C8_ParseLength ==
  /\ pOut.kind = "ok" =>
       (Len(pOut.lh) = COIN_RIS_LENGTH /\ Len(pOut.rh) = COIN_RIS_LENGTH)
  /\ (/\ pOut # NoParse /\ pIn.nf = 5
      /\ (Len(pIn.c.leftHashes) # COIN_RIS_LENGTH
            \/ Len(pIn.c.rightHashes) # COIN_RIS_LENGTH))
       => pOut = ParseError("MalformedCoinError")

\* C9: at the first index where two full transcripts differ,
\* determineCheater names the buyer exactly when the xor of the two halves
\* starts with IDENT_STR followed by ':', and a cheating merchant
\* otherwise.
C9_MarkerAndDelimiter ==
  (dOut # NoVerdict /\ BothFull /\ FirstDiff < COIN_RIS_LENGTH) =>
    LET xor == BufferToString(xorBuffers(FromHex(At(dIn.ris1, FirstDiff)),
                                         FromHex(At(dIn.ris2, FirstDiff))))
    IN IF StartsWith(xor, IDENT_STR \o <<COLON>>)
       THEN dOut.kind = "OwnerCheater"
       ELSE dOut.kind = "MerchantCheater"

\* C11: no step of a call of acceptCoin, and no step between two calls,
\* changes the coin (guid, amount, halves, commitments, signature), and
\* every call, the first as any later one, ends as acceptCoin run alone on
\* the coin with that call's bits ends.
C11_NoSpendState ==
  /\ [][(pc[1] # "idle" \/ pc'[1] # "idle") => coin' = coin]_vars
  /\ [](Done(1) => out[1] = acceptCoin(coin, bits[1]))

\* C11 witness: a call that is not the merchant's first has returned.
C11_Witness == Done(1) /\ calls[1] >= 2 /\ out[1].kind = "ris"

\* The sent coin of a parseCoin input is a valid coin of the bank: the
\* whole string, the bank's tag, no '-' in amount and guid, and
\* COIN_RIS_LENGTH commitments on each side.
ValidSent ==
  /\ pIn.nf = 5
  /\ pIn.c.cnst = BANK_STR
  /\ \A k \in 1..Len(pIn.c.amount) : pIn.c.amount[k] # DASH
  /\ \A k \in 1..Len(pIn.c.guid) : pIn.c.guid[k] # DASH
  /\ Len(pIn.c.leftHashes) = COIN_RIS_LENGTH
  /\ Len(pIn.c.rightHashes) = COIN_RIS_LENGTH

\* C12: parseCoin fails with MalformedCoinError, and returns no lists, on
\* every string whose first field is not the bank's tag.
C12_WrongIssuer ==
  (pOut # NoParse /\ pIn.c.cnst # BANK_STR)
    => pOut = ParseError("MalformedCoinError")

\* C12 witness: parseCoin has run on the whole string of a coin of another
\* issuer.
C12_Witness ==
  pOut # NoParse /\ pIn.nf = 5 /\ pIn.c.cnst = OTHER_BANK_STR
    /\ Len(pIn.c.leftHashes) = COIN_RIS_LENGTH

\* C13: for a valid coin, parseCoin of the coin's string returns the
\* coin's left and right lists of commitments, in their order.
C13_RoundTrip ==
  (pOut # NoParse /\ ValidSent)
    => (/\ pOut.kind = "ok"
        /\ pOut.lh = pIn.c.leftHashes
        /\ pOut.rh = pIn.c.rightHashes)

\* C13 witness: parseCoin has run on a valid coin whose lists differ and
\* whose left list holds two different commitments.
C13_Witness ==
  /\ pOut # NoParse /\ ValidSent
  /\ pIn.c.leftHashes # pIn.c.rightHashes
  /\ pIn.c.leftHashes[1] # pIn.c.leftHashes[2]

\* An upper bound on the steps the call of merchant m has left: the
\* verification, the parsing, one step for each index not yet visited and
\* the return.
Remaining(m) ==
  IF pc[m] = "idle" THEN COIN_RIS_LENGTH + 3
  ELSE IF pc[m] = "parse" THEN COIN_RIS_LENGTH + 2
  ELSE IF pc[m] = "loop" THEN (COIN_RIS_LENGTH + 1) - i[m]
  ELSE 0

\* C14: a call of acceptCoin draws at most COIN_RIS_LENGTH bits, exactly
\* COIN_RIS_LENGTH when it returns, and determineCheater looks at no more
\* than COIN_RIS_LENGTH indices; every step of a call brings it nearer
\* to its end, of which it is never more than COIN_RIS_LENGTH + 3 steps
\* away, so that the call ends.
C14_Terminates ==
  /\ [](\A m \in Merchants :
          /\ Len(bits[m]) <= COIN_RIS_LENGTH
          /\ i[m] <= COIN_RIS_LENGTH
          /\ Remaining(m) >= 0
          /\ out[m].kind = "ris" => Len(bits[m]) = COIN_RIS_LENGTH)
  /\ [](verdict.scanned <= COIN_RIS_LENGTH
          /\ verdictSame.scanned <= COIN_RIS_LENGTH)
  /\ [][\A m \in Merchants :
          <<pc[m], i[m], bits[m], ris[m], out[m]>>
             # <<pc'[m], i'[m], bits'[m], ris'[m], out'[m]>>
            => Remaining(m)' < Remaining(m)]_vars

\* C14 witness: both calls returned and determineCheater stopped at the
\* first index on the two transcripts and scanned every index on one.
C14_Witness ==
  /\ \A m \in Merchants : out[m].kind = "ris"
  /\ verdict.scanned = 1
  /\ verdictSame.scanned = COIN_RIS_LENGTH

\* C15: in a returned transcript, entry k is the half of pair k on the
\* side the k-th bit chose, that half hashes to the coin's commitment of
\* the same side and pair, and the entries stand in the order of the pairs.
C15_TranscriptEntries ==
  \A m \in Merchants :
    out[m].kind = "ris" =>
      /\ Len(out[m].ris) = Len(bits[m])
      /\ \A k \in Indices :
           /\ out[m].ris[k + 1] = getRis(coin, bits[m][k + 1], k)
           /\ hash(out[m].ris[k + 1]) =
                (IF bits[m][k + 1] THEN coin.leftHashes[k + 1]
                 ELSE coin.rightHashes[k + 1])

\* C15 witness: a call returned after drawing the left side of the first
\* pair and the right side of the last, on a coin with a forged commitment.
C15_Witness ==
  \E m \in Merchants :
    /\ out[m].kind = "ris" /\ TamperedAt(coin) # {}
    /\ bits[m][1] /\ ~bits[m][COIN_RIS_LENGTH]

C17_AbortAtFirstMismatch ==
  \A m \in Merchants :
    MetMismatch(m) =>
      /\ Done(m) /\ out[m] = Threw("ForgeryError")
      /\ \A k \in 0..(Len(bits[m]) - 2) : <<k, bits[m][k + 1]>> \notin TamperedAt(coin)

\* C17 witness: a call threw at pair 0 of a coin with a second forged
\* commitment at a later pair.
C17_Witness ==
  \E m \in Merchants :
    /\ MetMismatch(m) /\ Len(bits[m]) = 1
    /\ \E js \in TamperedAt(coin) : js[1] > 0

\* C18: a call of acceptCoin returns a transcript only for a coin whose
\* signature was unblinded; on a coin not yet signed, or signed and not
\* yet unblinded, it draws no bit and ends with InvalidSignatureError.
C18_OnlyUnblinded ==
  \A m \in Merchants :
    /\ out[m].kind = "ris" => coin.signature.kind = "unblinded"
    /\ coin.signature.kind \in {"none", "blinded"} =>
         /\ bits[m] = <<>>
         /\ Done(m) => out[m] = Threw("InvalidSignatureError")

\* C18 witness: a call has ended on a coin that is signed and not unblinded.
C18_Witness ==
  \E m \in Merchants : Done(m) /\ coin.signature.kind = "blinded"

\* C19: for an honestly built coin and two returned transcripts,
\* determineCheater reports a false claim exactly when the two calls drew
\* the same bits, the buyer exactly when they differ at some index, and
\* never a cheating merchant.
C19_BitsDecide ==
  (Honest /\ verdict # NoVerdict) =>
    /\ verdict.kind = "FalseClaim" <=> bits[1] = bits[2]
    /\ verdict.kind = "OwnerCheater" <=> bits[1] # bits[2]
    /\ verdict.kind # "MerchantCheater"

\* C19 witness: the two calls drew bits that differ at the last index only.
C19_Witness ==
  /\ Honest /\ verdict # NoVerdict
  /\ bits[1] # bits[2]
  /\ SubSeq(bits[1], 1, COIN_RIS_LENGTH - 1) = SubSeq(bits[2], 1, COIN_RIS_LENGTH - 1)

\* C20: determineCheater with its two transcripts exchanged gives the
\* same report, and the same identity when it names the buyer.
C20_Symmetric ==
  dOut # NoVerdict =>
    LET swapped == determineCheater(dIn.guid, dIn.ris2, dIn.ris1)
    IN swapped.kind = dOut.kind /\ swapped.identity = dOut.identity

\* C20 witness: determineCheater named the buyer on two full transcripts.
C20_Witness ==
  dOut.kind = "OwnerCheater" /\ BothFull /\ dOut.identity # Undefined

====
